---- MODULE Spec2Model ----
(***************************************************************************)
(* NetSentryX: the detection gateway and mitigation scheduler of           *)
(* api/app.py (block / unblock state machine over the blocked_ips,         *)
(* blocked_ips_history and whitelist collections, the iptables enforcement *)
(* helpers and the deferred unblock tasks), and the per-source event       *)
(* buffers of realtime_agent/realtime_extractor.py.                        *)
(*                                                                         *)
(* Time is counted in whole ticks of the clock.  The coroutines that write *)
(* blocks, schedule_block_and_unblock and remove_block, are cut at their   *)
(* awaits: one action per stretch of code between two suspension points,   *)
(* so that other requests interleave where the event loop lets them.  The  *)
(* handlers detect and update_config are one action each; their awaits     *)
(* touch the flows, alerts and config documents only.  The aggregator      *)
(* thread of the extractor is cut where it takes and releases the buffer   *)
(* lock.                                                                   *)
(***************************************************************************)
EXTENDS Integers, Sequences, FiniteSets, TLC

\* ------------------------------------------------------------------ bounds
\* Number of /detect and /admin/block requests in one run.
MaxTasks == 2
\* A request's clock is followed this far: since[t] = MaxSince stands for
\* "MaxSince ticks or more".
MaxSince == 2

\* The extractor's clock runs from 0 to MaxWall.
MaxWall == 3
\* Events held in all buffers together.
MaxEvents == 3

\* ------------------------------------------------------- program constants
\* --window and --keep-idle of the extractor, in seconds.
window_size == 1
keep_idle_for == 2
\* BLOCK_DURATION_SEC of the deployment (app.py reads it from the
\* environment; the shipped default is 600 s, the model runs a short one).
DEFAULT_BLOCK_DURATION_SEC == 1
\* MODEL_THRESHOLD, in tenths (0.7).
DEFAULT_THRESHOLD == 7

\* ------------------------------------------------------------------ inputs
\* Addresses are dotted quads, kept as their four octets.
PublicIP == <<8, 8, 8, 8>>
PrivateIP == <<10, 0, 0, 50>>
NoIP == <<0, 0, 0, 0>>
IPs == {PublicIP, PrivateIP}

TaskIds == 1..MaxTasks

\* Classifier probabilities, in tenths.
Probs == {5, 7}
\* model.predict: the classifier's own predicted class.
Preds == {0, 1}
\* An Optional field of a request body is a sequence of length 0 (None) or 1.
None == <<>>
\* duration_sec of a ManualBlockRequest.
ManualDurations == {None, <<-1>>, <<0>>, <<1>>}
\* note of a ManualBlockRequest.
Notes == {"ops"}
\* ConfigUpdate bodies: threshold in tenths, block_duration_sec,
\* blocking_enabled.  The bodies cover the empty update, both rejections
\* (threshold above 1.0, non-positive duration), an accepted update that
\* restates the values in force, and a body carrying only blocking_enabled,
\* which the handler never reads.
ConfigUpdate(th, du, en) ==
    [threshold |-> th, block_duration_sec |-> du, blocking_enabled |-> en]
ConfigUpdates ==
    {ConfigUpdate(None, None, None), ConfigUpdate(<<11>>, None, None),
     ConfigUpdate(None, <<0>>, None), ConfigUpdate(<<7>>, <<1>>, None),
     ConfigUpdate(None, None, <<FALSE>>)}

\* A packet as packet_to_event reads it: ip, whether it has an IP layer; l4,
\* its transport layer; parse, how far the reading of the transport header
\* gets ("ok", or the access that raises: "dport" or "flags"); its length,
\* its destination port and its SYN flag.
\* ConfigUpdate bodies that change the policy: every combination of an
\* absent, an accepted and a rejected threshold (0.5; 1.1) and duration
\* (2; 0), with blocking_enabled absent, false or true.
PolicyUpdates ==
    {ConfigUpdate(th, du, en) :
        th \in {None, <<5>>, <<11>>}, du \in {None, <<2>>, <<0>>},
        en \in {None, <<FALSE>>, <<TRUE>>}}

Packet(ip, l4, parse, size, dport, syn) ==
    [ip |-> ip, l4 |-> l4, parse |-> parse, size |-> size, dport |-> dport,
     syn |-> syn]
\* Packets seen by the extractor: a TCP SYN to port 80, a packet without a
\* port (neither TCP nor UDP), and a packet without an IP layer.
PacketShapes ==
    {Packet(TRUE, "TCP", "ok", 40, 80, 1),
     Packet(TRUE, "OTHER", "ok", 100, 0, 0),
     Packet(FALSE, "OTHER", "ok", 60, 0, 0)}
\* Packets whose transport header cannot be read: the port of a TCP or UDP
\* header, or the flags of a TCP header.
MalformedPackets ==
    {Packet(TRUE, "TCP", "dport", 60, 80, 1),
     Packet(TRUE, "TCP", "flags", 60, 80, 1),
     Packet(TRUE, "UDP", "dport", 60, 53, 0)}
\* The packets of the parsing runs.
ParsePackets ==
    PacketShapes \cup MalformedPackets \cup {Packet(TRUE, "UDP", "ok", 80, 53, 0)}
\* --speed of the extractor, in halves: 0.5, 1.0 (the default), 2.0, 4.0.
Speeds == {1, 2, 4, 8}
DefaultSpeed == 2
\* Timestamps of the packets of a paced capture, in seconds.
PaceTimes == {0, 4, 8, 12, 16, 20, 24, 28}
\* How a POST to the detection endpoint ends: answered with 200, answered
\* with an error status, or requests.post raises (connection error, timeout).
PostOutcomes == {"answered", "error", "timeout"}
\* Timestamps of sniffed packets, on the extractor's clock.
WallTimes == 0..MaxWall
\* Timestamps of the packets of a capture file: taken before the run or
\* early in it, so that the clock of the run passes them by a window.
CaptureTimes == (0 - 1)..(MaxWall - window_size - 1)

\* Feature vectors submitted to /detect (src_ip is chosen separately).
\* Rates are per second; duration in seconds.
PortScanFV ==
    [total_packets |-> 500, total_bytes |-> 25000, duration |-> 2,
     pkts_per_sec |-> 250, bytes_per_sec |-> 12500, syn_count |-> 450,
     unique_dst_ports |-> 400]
FeatureVecs == {PortScanFV}

\* Feature vectors on both sides of every threshold of classify_attack_type.
ClassifyVecs ==
    {[total_packets |-> tp, total_bytes |-> 1500, duration |-> du,
      pkts_per_sec |-> pps, bytes_per_sec |-> bps, syn_count |-> sc,
      unique_dst_ports |-> udp] :
        tp \in {10, 54, 55, 500}, du \in {10, 11},
        pps \in {10, 11, 49, 50, 1000, 1001},
        bps \in {1000000, 1000001}, sc \in {20, 21},
        udp \in {1, 10, 11, 400}}

\* ------------------------------------------------------------------- state
VARIABLES
    USE_REAL_BLOCKING,    \* module constant read from the environment
    ttl_index,            \* whether create_indexes got its TTL index
    target,               \* the source address the run's requests are about
    CONFIG_CACHE,         \* the cached PolicyConfig
    config_db,            \* db.config, the stored policy document
    whitelist,            \* db.whitelist, by address
    blocked_ips,          \* db.blocked_ips, the active BlockEntries
    blocked_ips_history,  \* db.blocked_ips_history
    iptables,             \* DROP rules per address in the INPUT chain
    timers,               \* pending delayed_unblock tasks
    tasks,                \* the block requests and their background tasks
    since,                \* per request: ticks since it first read the clock
    removing,             \* remove_block calls between their two awaits
    ever_blocked,         \* history variable: Audit of every BlockEntry ever inserted
    resp,                 \* how the request handled by the step just taken ended
    written,              \* the documents that step inserted
    enf_call,             \* the enforcement call of that step
    buffers,              \* realtime_extractor.buffers
    last_activity,        \* realtime_extractor.last_activity
    wall,                 \* time.time() of the extractor process
    mode,                 \* --mode of the extractor: "replay" or "live"
    replay_done,          \* realtime_extractor.replay_done
    agg,                  \* the aggregator thread: its position and locals
    replay,               \* the replay thread: its position and locals
    buffers_lock,         \* realtime_extractor.buffers_lock: its holder
    post,                 \* --post of the extractor
    speed,                \* --speed of the extractor, in halves
    pace,                 \* the replay thread's pacing: prev_ts and wait
    uncounted             \* history variable: per source, the events at the
                          \* end of its deque that no features dictionary
                          \* has counted (NotFollowed: not kept for the run)

\* The environment, fixed for one run of the service.  Every query and
\* command of app.py names one address and touches the documents and rules
\* of that address only, so a run follows the requests about one address.
env == <<USE_REAL_BLOCKING, ttl_index, target>>
\* What the step just taken gave out.
out == <<resp, written, enf_call>>
apivars ==
    <<env, CONFIG_CACHE, config_db, whitelist, blocked_ips,
      blocked_ips_history, iptables, timers, tasks, since, removing,
      ever_blocked, out>>
\* The command line of the extractor, fixed for one run.
params == <<mode, post, speed>>
aggvars ==
    <<buffers, last_activity, wall, params, replay_done, agg, replay,
      buffers_lock, pace, uncounted>>
vars == <<apivars, aggvars>>

\* ----------------------------------------------------------- pure helpers
\* ip.startswith(private_prefixes): "127.", "10.", "192.168.", "172.16." ..
\* "172.31." on a dotted quad.
IsPrivate(ip) ==
    \/ ip[1] = 127
    \/ ip[1] = 10
    \/ (ip[1] = 192 /\ ip[2] = 168)
    \/ (ip[1] = 172 /\ ip[2] \in 16..31)

Max(a, b) == IF a >= b THEN a ELSE b
Min(a, b) == IF a <= b THEN a ELSE b

\* classify_attack_type with the flood rule tried before the port-scan rule.
classify_flood_first(fv) ==
    IF fv.pkts_per_sec > 1000 \/ fv.bytes_per_sec > 1000000
    THEN "DDoS"
    ELSE IF fv.unique_dst_ports > 10
            /\ fv.total_packets < 5 * Max(fv.unique_dst_ports, 1)
    THEN "Port Scan"
    ELSE IF fv.syn_count > 20 /\ fv.pkts_per_sec > 10
    THEN "Brute Force"
    ELSE IF fv.duration > 10 /\ fv.pkts_per_sec < 50
    THEN "Bot"
    ELSE "Suspicious Activity"

\* classify_attack_type: total_packets / max(unique_dst_ports, 1) < 5 is
\* compared without dividing (the divisor is positive).
classify_attack_type(fv) ==
    IF fv.unique_dst_ports > 10
       /\ fv.total_packets < 5 * Max(fv.unique_dst_ports, 1)
    THEN "Port Scan"
    ELSE IF fv.pkts_per_sec > 1000 \/ fv.bytes_per_sec > 1000000
    THEN "DDoS"
    ELSE IF fv.syn_count > 20 /\ fv.pkts_per_sec > 10
    THEN "Brute Force"
    ELSE IF fv.duration > 10 /\ fv.pkts_per_sec < 50
    THEN "Bot"
    ELSE "Suspicious Activity"

\* db.blocked_ips.find_one({"ip": ip}) is not None
FindOneBlocked(ip) == \E e \in blocked_ips : e.ip = ip

\* delete_one in place of delete_many: a single matching document goes.
DeleteOne(coll, ip) ==
    IF \E e \in coll : e.ip = ip
    THEN coll \ {CHOOSE e \in coll : e.ip = ip}
    ELSE coll

\* db.blocked_ips.delete_many({"ip": ip})
DeleteMany(coll, ip) == {e \in coll : e.ip # ip}

\* db.whitelist.find_one({"ip": ip}) is not None
FindOneWhitelist(ip) == ip \in whitelist

\* ------------------------------------------------------------- enforcement
\* What block_ip_iptables does for ip; avail: _iptables_available() finds
\* the binary; cmd_ok: "sudo iptables -I INPUT -s ip -j DROP" succeeds.
BlockOutcome(ip, avail, cmd_ok) ==
    IF IsPrivate(ip) THEN "refused"
    ELSE IF ~USE_REAL_BLOCKING THEN "mock"
    ELSE IF ~avail THEN "unavailable"
    ELSE IF cmd_ok THEN "ok"
    ELSE "failed"

\* What unblock_ip_iptables does for ip: "iptables -D" fails when the chain
\* holds no such rule.
UnblockOutcome(ip, avail, cmd_ok) ==
    IF ~USE_REAL_BLOCKING THEN "mock"
    ELSE IF ~avail THEN "unavailable"
    ELSE IF cmd_ok /\ iptables[ip] > 0 THEN "ok"
    ELSE "failed"

\* enf_call tells what the step just taken did at the enforcement boundary:
\* which helper it called for which address, on behalf of whom (via), and
\* how far the helper got (outcome); NoCall when the step called neither.
NoCall == [op |-> "none", ip |-> NoIP, via |-> "", outcome |-> ""]

block_ip_iptables(ip, via, avail, cmd_ok) ==
    LET o == BlockOutcome(ip, avail, cmd_ok) IN
    /\ enf_call' = [op |-> "apply", ip |-> ip, via |-> via, outcome |-> o]
    /\ iptables' = IF o = "ok" THEN [iptables EXCEPT ![ip] = @ + 1]
                   ELSE iptables

unblock_ip_iptables(ip, via, avail, cmd_ok) ==
    LET o == UnblockOutcome(ip, avail, cmd_ok) IN
    /\ enf_call' = [op |-> "remove", ip |-> ip, via |-> via, outcome |-> o]
    /\ iptables' = IF o = "ok" THEN [iptables EXCEPT ![ip] = @ - 1]
                   ELSE iptables

\* ------------------------------------------------------------------- tasks
\* One record per /detect or /admin/block request: pc is the await its
\* schedule_block_and_unblock stands at, the other fields are the
\* coroutine's arguments.
IdleTask ==
    [pc |-> "idle", kind |-> "none", ip |-> NoIP, duration_sec |-> 0,
     reason |-> "", note |-> ""]

\* A coroutine that has returned.
DoneTask == [IdleTask EXCEPT !.pc = "done"]

\* Requests take the task slots in order.
NextFree(t) ==
    /\ tasks[t].pc = "idle"
    /\ \A u \in TaskIds : u < t => tasks[u].pc # "idle"

Actor(t) == IF tasks[t].kind = "detect" THEN "model" ELSE "admin"

\* resp: the request about ip ended with `what`; NoResp when the step
\* ended none.
NoResp == [ip |-> NoIP, what |-> ""]
Resp(ip, what) == [ip |-> ip, what |-> what]

\* written: the documents the step just taken inserted, in full.  The
\* collections db.flows and db.alerts are never read back and are not kept;
\* db.blocked_ips and db.blocked_ips_history keep their documents under the
\* _id given by insert_one and without blocked_at, which nothing reads back
\* either (Stored).
NoDocs == <<>>
Stored(id, doc) ==
    [f \in ((DOMAIN doc) \ {"coll", "blocked_at"}) \cup {"id"} |->
        IF f = "id" THEN id ELSE doc[f]]

\* A step that ends no request, appends no flow or alert and calls no
\* enforcement helper.
Quiet == resp' = NoResp /\ written' = NoDocs /\ enf_call' = NoCall

\* -------------------------------------------------------------------- time
\* The service reads the UTC clock to stamp documents and to sleep.  For
\* each block request the model follows the ticks since the request first
\* read the clock (line 291), and writes every timestamp of the request
\* relative to that reading.  since[t] = NoClock: request t has not read the
\* clock, or nothing of it is left that waits for a time (no running
\* coroutine, no BlockEntry, no pending delayed_unblock).
NoClock == -1
Started(t) == since[t] # NoClock
Ticked(s) == [t \in TaskIds |-> IF s[t] # NoClock THEN Min(s[t] + 1, MaxSince)
                                ELSE s[t]]
Kept(s, docs, tms, tks) ==
    [t \in TaskIds |->
        IF \/ tks[t].pc \in {"history", "apply"}
           \/ \E e \in docs : e.id = t
           \/ \E tm \in tms : tm.id = t
        THEN s[t] ELSE NoClock]

\* -------------------------------------------------------------------- Init
\* The service after startup(): the policy was loaded into CONFIG_CACHE from
\* db.config (whose document may carry blocking_enabled = false), the TTL
\* index on blocked_ips.expireAt was created or create_indexes swallowed the
\* failure, the collections are empty.
ApiInit ==
    /\ USE_REAL_BLOCKING \in BOOLEAN
    /\ ttl_index \in BOOLEAN
    /\ target \in IPs
    /\ \E b \in BOOLEAN :
          /\ config_db = [threshold |-> DEFAULT_THRESHOLD,
                          block_duration_sec |-> DEFAULT_BLOCK_DURATION_SEC,
                          blocking_enabled |-> b]
          /\ CONFIG_CACHE = [threshold |-> DEFAULT_THRESHOLD,
                             block_duration_sec |-> DEFAULT_BLOCK_DURATION_SEC,
                             blocking_enabled |-> b]
    /\ whitelist = {}
    /\ blocked_ips = {}
    /\ blocked_ips_history = {}
    /\ iptables = [i \in IPs |-> 0]
    /\ timers = {}
    /\ tasks = [t \in TaskIds |-> IdleTask]
    /\ since = [t \in TaskIds |-> NoClock]
    /\ removing = {}
    /\ ever_blocked = {}
    /\ resp = NoResp
    /\ written = NoDocs
    /\ enf_call = NoCall

\* ------------------------------------------------------------ POST /detect
\* The whole handler: policy from CONFIG_CACHE, flow and alert documents,
\* verdict prob >= threshold, whitelist lookup, blocking_enabled, and the
\* background task for schedule_block_and_unblock.
\* The alert document: score, threshold and model_prediction are stored as
\* the handler had them.
Alert(ip, attack, attack_type, note, prob, threshold, pred) ==
    [coll |-> "alerts", src_ip |-> ip, attack |-> attack,
     attack_type |-> attack_type, note |-> note, score |-> prob,
     threshold |-> threshold, model_prediction |-> pred]

\* The flow document: the submitted features under the source address.
Flow(ip, fv) ==
    [coll |-> "flows", src_ip |-> ip, total_packets |-> fv.total_packets,
     total_bytes |-> fv.total_bytes, duration |-> fv.duration,
     pkts_per_sec |-> fv.pkts_per_sec, bytes_per_sec |-> fv.bytes_per_sec,
     syn_count |-> fv.syn_count, unique_dst_ports |-> fv.unique_dst_ports]

\* is_attack with ">" in place of ">=".
IsAttackStrict(prob, threshold) == prob > threshold

\* is_attack = prob >= threshold
IsAttack(prob, threshold) == prob >= threshold

\* The toggle read as always on.
BlockingAlways == TRUE

\* CONFIG_CACHE.get("blocking_enabled", True)
BlockingEnabled == CONFIG_CACHE.blocking_enabled

\* The "alert" field of the response body, by the way the handler ended.
ResponseAlert(what) == what \in {"disabled", "scheduled"}

detect(t, ip, fv, prob, pred) ==
    LET threshold    == CONFIG_CACHE.threshold
        duration_sec == CONFIG_CACHE.block_duration_sec
        is_attack    == IsAttack(prob, threshold)
        attack_type  == IF is_attack THEN classify_attack_type(fv) ELSE "None"
        whitelisted  == FindOneWhitelist(ip)
        flow         == Flow(ip, fv)
        alert(note)  == Alert(ip, is_attack, attack_type, note, prob,
                              threshold, pred)
    IN
    /\ NextFree(t)
    /\ IF ~is_attack THEN
          /\ written' = <<flow, alert("")>>
          /\ tasks' = [tasks EXCEPT ![t] = DoneTask]
          /\ resp' = Resp(ip, "benign")
       ELSE IF whitelisted THEN
          /\ written' = <<flow, alert("whitelisted")>>
          /\ tasks' = [tasks EXCEPT ![t] = DoneTask]
          /\ resp' = Resp(ip, "whitelisted")
       ELSE IF ~BlockingEnabled THEN
          /\ written' = <<flow, alert("")>>
          /\ tasks' = [tasks EXCEPT ![t] = DoneTask]
          /\ resp' = Resp(ip, "disabled")
       ELSE
          /\ written' = <<flow, alert("")>>
          /\ tasks' = [tasks EXCEPT ![t] =
                [pc |-> "find", kind |-> "detect", ip |-> ip,
                 duration_sec |-> duration_sec, reason |-> attack_type,
                 note |-> ""]]
          /\ resp' = Resp(ip, "scheduled")
    /\ enf_call' = NoCall
    /\ UNCHANGED <<aggvars, env,
                   CONFIG_CACHE, config_db, whitelist, blocked_ips,
                   blocked_ips_history, iptables, timers, since, removing,
                   ever_blocked>>

\* detect scheduling its block although model_predict raised.
detect_predict_raises_open(t, ip, fv) ==
    /\ NextFree(t)
    /\ written' = <<Flow(ip, fv)>>
    /\ tasks' = [tasks EXCEPT ![t] =
          [pc |-> "find", kind |-> "detect", ip |-> ip,
           duration_sec |-> CONFIG_CACHE.block_duration_sec,
           reason |-> "auto-detect", note |-> ""]]
    /\ resp' = Resp(ip, "error")
    /\ enf_call' = NoCall
    /\ UNCHANGED <<aggvars, env,
                   CONFIG_CACHE, config_db, whitelist, blocked_ips,
                   blocked_ips_history, iptables, timers, since, removing,
                   ever_blocked>>

\* The handler when model_predict raises in the executor (line 437): the
\* flow document is stored by then; the exception leaves the handler, which
\* answers 500 with no alert document and no background task.
detect_predict_raises(t, ip, fv) ==
    /\ NextFree(t)
    /\ written' = <<Flow(ip, fv)>>
    /\ tasks' = [tasks EXCEPT ![t] = DoneTask]
    /\ resp' = Resp(ip, "error")
    /\ enf_call' = NoCall
    /\ UNCHANGED <<aggvars, env,
                   CONFIG_CACHE, config_db, whitelist, blocked_ips,
                   blocked_ips_history, iptables, timers, since, removing,
                   ever_blocked>>

\* ------------------------------------------------------- POST /admin/block
\* "payload.duration_sec or DEFAULT": None and 0 both give the default.
manual_block(t, ip, duration_sec, note) ==
    LET duration == IF duration_sec = None \/ duration_sec = <<0>>
                    THEN DEFAULT_BLOCK_DURATION_SEC
                    ELSE duration_sec[1]
    IN
    /\ NextFree(t)
    /\ IF duration <= 0 THEN
          /\ tasks' = [tasks EXCEPT ![t] = DoneTask]
          /\ resp' = Resp(ip, "rejected")
       ELSE
          /\ tasks' = [tasks EXCEPT ![t] =
                [pc |-> "find", kind |-> "manual", ip |-> ip,
                 duration_sec |-> duration, reason |-> "manual",
                 note |-> note]]
          /\ resp' = NoResp
    /\ written' = NoDocs
    /\ enf_call' = NoCall
    /\ UNCHANGED <<aggvars, env,
                   CONFIG_CACHE, config_db, whitelist, blocked_ips,
                   blocked_ips_history, iptables, timers, since, removing,
                   ever_blocked>>

\* ---------------------------------------------- schedule_block_and_unblock
\* schedule_block_and_unblock without its "if existing: return".
SBU_FindNoReturn(t) ==
    /\ tasks[t].pc = "find"
    /\ tasks' = [tasks EXCEPT ![t].pc = "insert"]
    /\ Quiet
    /\ UNCHANGED <<aggvars, env,
                   CONFIG_CACHE, config_db, whitelist, blocked_ips,
                   blocked_ips_history, iptables, timers, since, removing,
                   ever_blocked>>

\* existing = await db.blocked_ips.find_one({"ip": ip}); if existing: return
\* schedule_block_and_unblock looking for the address in the history as
\* well: an address blocked once is never blocked again.
SBU_FindAbsorbing(t) ==
    /\ tasks[t].pc = "find"
    /\ IF \/ FindOneBlocked(tasks[t].ip)
          \/ \E h \in blocked_ips_history : h.ip = tasks[t].ip
       THEN
          /\ tasks' = [tasks EXCEPT ![t] = DoneTask]
          /\ resp' = Resp(tasks[t].ip, "suppressed")
       ELSE
          /\ tasks' = [tasks EXCEPT ![t].pc = "insert"]
          /\ resp' = NoResp
    /\ written' = NoDocs
    /\ enf_call' = NoCall
    /\ UNCHANGED <<aggvars, env,
                   CONFIG_CACHE, config_db, whitelist, blocked_ips,
                   blocked_ips_history, iptables, timers, since, removing,
                   ever_blocked>>

SBU_Find(t) ==
    /\ tasks[t].pc = "find"
    /\ IF FindOneBlocked(tasks[t].ip) THEN
          /\ tasks' = [tasks EXCEPT ![t] = DoneTask]
          /\ resp' = Resp(tasks[t].ip, "suppressed")
       ELSE
          /\ tasks' = [tasks EXCEPT ![t].pc = "insert"]
          /\ resp' = NoResp
    /\ written' = NoDocs
    /\ enf_call' = NoCall
    /\ UNCHANGED <<aggvars, env,
                   CONFIG_CACHE, config_db, whitelist, blocked_ips,
                   blocked_ips_history, iptables, timers, since, removing,
                   ever_blocked>>

\* The blocked_ips document written with the defaults of the signature
\* (reason "auto-detect") in place of the caller's reason.
BlockDocAutoDetect(t, t2) ==
    [coll |-> "blocked_ips", ip |-> tasks[t].ip, blocked_at |-> t2,
     unblock_at |-> 0 + tasks[t].duration_sec,
     duration_sec |-> tasks[t].duration_sec, reason |-> "auto-detect",
     actor |-> Actor(t), note |-> tasks[t].note,
     expireAt |-> 0 + tasks[t].duration_sec]

\* The blocked_ips document: unblock_at is computed from the first reading
\* of the clock (time 0 of the request), blocked_at is a second reading t2.
BlockDoc(t, t2) ==
    [coll |-> "blocked_ips", ip |-> tasks[t].ip, blocked_at |-> t2,
     unblock_at |-> 0 + tasks[t].duration_sec,
     duration_sec |-> tasks[t].duration_sec, reason |-> tasks[t].reason,
     actor |-> Actor(t), note |-> tasks[t].note,
     expireAt |-> 0 + tasks[t].duration_sec]

\* What the audit trail has to tell about a BlockEntry.
Audit(e) ==
    [id |-> e.id, ip |-> e.ip, duration_sec |-> e.duration_sec,
     reason |-> e.reason, actor |-> e.actor]

\* The code from the find_one's return to the insert_one: the clock may or
\* may not advance between its two readings.
SBU_Insert(t) ==
    /\ tasks[t].pc = "insert"
    /\ \E t2 \in {0, 1} :
          /\ blocked_ips' = blocked_ips \cup {Stored(t, BlockDoc(t, t2))}
          /\ written' = <<BlockDoc(t, t2)>>
          /\ ever_blocked' = ever_blocked \cup {Audit(Stored(t, BlockDoc(t, t2)))}
          /\ since' = IF t2 = 0 THEN [since EXCEPT ![t] = 0]
                      ELSE [Ticked(since) EXCEPT ![t] = 1]
    /\ tasks' = [tasks EXCEPT ![t].pc = "history"]
    /\ resp' = NoResp
    /\ enf_call' = NoCall
    /\ UNCHANGED <<aggvars, env,
                   CONFIG_CACHE, config_db, whitelist,
                   blocked_ips_history, iptables, timers, removing>>

\* The history document: blocked_at is a third reading of the clock.
HistoryDoc(t) ==
    [coll |-> "blocked_ips_history", ip |-> tasks[t].ip, blocked_at |-> since[t],
     unblock_at |-> 0 + tasks[t].duration_sec,
     duration_sec |-> tasks[t].duration_sec, reason |-> tasks[t].reason,
     actor |-> Actor(t), note |-> tasks[t].note]

SBU_History(t) ==
    /\ tasks[t].pc = "history"
    /\ blocked_ips_history' = blocked_ips_history \cup {Stored(t, HistoryDoc(t))}
    /\ written' = <<HistoryDoc(t)>>
    /\ tasks' = [tasks EXCEPT ![t].pc = "apply"]
    /\ resp' = NoResp
    /\ enf_call' = NoCall
    /\ UNCHANGED <<aggvars, env,
                   CONFIG_CACHE, config_db, whitelist, blocked_ips,
                   iptables, timers, since, removing, ever_blocked>>

\* db.blocked_ips_history.insert_one raises: the coroutine ends there.
SBU_HistoryFail(t) ==
    /\ tasks[t].pc = "history"
    /\ tasks' = [tasks EXCEPT ![t] = DoneTask]
    /\ resp' = Resp(tasks[t].ip, "failed")
    /\ written' = NoDocs
    /\ enf_call' = NoCall
    /\ since' = Kept(since, blocked_ips, timers, tasks')
    /\ UNCHANGED <<aggvars, env,
                   CONFIG_CACHE, config_db, whitelist, blocked_ips,
                   blocked_ips_history, iptables, timers, removing,
                   ever_blocked>>

\* schedule_block_and_unblock undoing its block when block_ip_iptables
\* returns False: the BlockEntry is deleted and no delayed_unblock is created.
SBU_ApplyRollback(t, avail, cmd_ok) ==
    LET ok == BlockOutcome(tasks[t].ip, avail, cmd_ok) = "ok" IN
    /\ tasks[t].pc = "apply"
    /\ block_ip_iptables(tasks[t].ip, "schedule", avail, cmd_ok)
    /\ timers' = IF ok
                 THEN timers \cup
                      {[id |-> t, ip |-> tasks[t].ip, ok |-> ok,
                        fire_at |-> Min(since[t] + tasks[t].duration_sec + 1,
                                        MaxSince)]}
                 ELSE timers
    /\ blocked_ips' = IF ok THEN blocked_ips
                      ELSE {e \in blocked_ips : e.id # t}
    /\ tasks' = [tasks EXCEPT ![t] = DoneTask]
    /\ resp' = Resp(tasks[t].ip, "blocked")
    /\ written' = NoDocs
    /\ UNCHANGED <<aggvars, env,
                   CONFIG_CACHE, config_db, whitelist,
                   blocked_ips_history, since, removing, ever_blocked>>

\* block_ip_iptables in the executor, then create_task(delayed_unblock()):
\* the sleep of duration_sec + 1 starts now.  The task's record keeps ok,
\* what block_ip_iptables returned to the coroutine.
SBU_Apply(t, avail, cmd_ok) ==
    LET ok == BlockOutcome(tasks[t].ip, avail, cmd_ok) = "ok" IN
    /\ tasks[t].pc = "apply"
    /\ block_ip_iptables(tasks[t].ip, "schedule", avail, cmd_ok)
    /\ timers' = timers \cup
          {[id |-> t, ip |-> tasks[t].ip, ok |-> ok,
            fire_at |-> Min(since[t] + tasks[t].duration_sec + 1, MaxSince)]}
    /\ tasks' = [tasks EXCEPT ![t] = DoneTask]
    /\ resp' = Resp(tasks[t].ip, "blocked")
    /\ written' = NoDocs
    /\ UNCHANGED <<aggvars, env,
                   CONFIG_CACHE, config_db, whitelist, blocked_ips,
                   blocked_ips_history, since, removing, ever_blocked>>

\* delayed_unblock after its sleep: unblock_ip_iptables and nothing else.
delayed_unblock(tm, avail, cmd_ok) ==
    /\ tm \in timers
    /\ since[tm.id] >= tm.fire_at
    /\ unblock_ip_iptables(tm.ip, "timer", avail, cmd_ok)
    /\ timers' = timers \ {tm}
    /\ since' = Kept(since, blocked_ips, timers', tasks)
    /\ resp' = NoResp
    /\ written' = NoDocs
    /\ UNCHANGED <<aggvars, env,
                   CONFIG_CACHE, config_db, whitelist, blocked_ips,
                   blocked_ips_history, tasks, removing, ever_blocked>>

\* ------------------------------------------- DELETE /admin/block/{ip}
\* remove_block up to its first await: db.blocked_ips.delete_many.
manual_unblock(ip) ==
    /\ ip \notin removing
    /\ blocked_ips' = DeleteMany(blocked_ips, ip)
    /\ removing' = removing \cup {ip}
    /\ since' = Kept(since, blocked_ips', timers, tasks)
    /\ Quiet
    /\ UNCHANGED <<aggvars, env,
                   CONFIG_CACHE, config_db, whitelist,
                   blocked_ips_history, iptables, timers, tasks,
                   ever_blocked>>

\* remove_block after the delete: unblock_ip_iptables in the executor, then
\* the handler answers {"ok": true}.
remove_block_unblock(ip, avail, cmd_ok) ==
    /\ ip \in removing
    /\ unblock_ip_iptables(ip, "remove_block", avail, cmd_ok)
    /\ removing' = removing \ {ip}
    /\ resp' = Resp(ip, "unblocked")
    /\ written' = NoDocs
    /\ UNCHANGED <<aggvars, env,
                   CONFIG_CACHE, config_db, whitelist, blocked_ips,
                   blocked_ips_history, timers, tasks, since, ever_blocked>>

\* ------------------------------------------------------------ the TTL index
\* MongoDB's TTL monitor deletes a document once its expireAt has passed,
\* provided the index exists.
TTLExpire(e) ==
    /\ ttl_index
    /\ e \in blocked_ips
    /\ e.expireAt <= since[e.id]
    /\ blocked_ips' = blocked_ips \ {e}
    /\ since' = Kept(since, blocked_ips', timers, tasks)
    /\ Quiet
    /\ UNCHANGED <<aggvars, env,
                   CONFIG_CACHE, config_db, whitelist,
                   blocked_ips_history, iptables, timers, tasks,
                   removing, ever_blocked>>

\* ---------------------------------------------------------------- whitelist
\* POST /whitelist/add: update_one(..., upsert=True)
add_whitelist(ip) ==
    /\ whitelist' = whitelist \cup {ip}
    /\ Quiet
    /\ UNCHANGED <<aggvars, env,
                   CONFIG_CACHE, config_db, blocked_ips,
                   blocked_ips_history, iptables, timers, tasks, since,
                   removing, ever_blocked>>

\* DELETE /whitelist/{ip}: delete_one
remove_whitelist(ip) ==
    /\ whitelist' = whitelist \ {ip}
    /\ Quiet
    /\ UNCHANGED <<aggvars, env,
                   CONFIG_CACHE, config_db, blocked_ips,
                   blocked_ips_history, iptables, timers, tasks, since,
                   removing, ever_blocked>>

\* ------------------------------------------------------ POST /admin/config
\* Validation (400), an empty update (returns the cache), the store write
\* (500 when it fails), then CONFIG_CACHE.update(updates).  blocking_enabled
\* of the body is not read.  The request ends in the step (resp "config");
\* ConfigStatus gives the status of its answer.
BadUpdate(payload) ==
    \/ /\ payload.threshold # None
       /\ ~(payload.threshold[1] >= 0 /\ payload.threshold[1] <= 10)
    \/ /\ payload.block_duration_sec # None
       /\ payload.block_duration_sec[1] <= 0

\* updates: the fields of the body that are taken over.
Updates(payload, cfg) ==
    [cfg EXCEPT
        !.threshold = IF payload.threshold = None THEN @
                      ELSE payload.threshold[1],
        !.block_duration_sec = IF payload.block_duration_sec = None THEN @
                               ELSE payload.block_duration_sec[1]]

\* The status of the handler's answer: 400 from the validation, 200 for an
\* empty update, 500 when update_one raises, else 200.
ConfigStatus(payload, store_ok) ==
    IF BadUpdate(payload) THEN 400
    ELSE IF payload.threshold = None /\ payload.block_duration_sec = None
    THEN 200
    ELSE IF ~store_ok THEN 500
    ELSE 200

\* A handler that updated the cache before the store write returned.
update_config_cache_first(payload, store_ok) ==
    LET empty == payload.threshold = None /\ payload.block_duration_sec = None
    IN
    /\ IF BadUpdate(payload) \/ empty THEN
          UNCHANGED <<CONFIG_CACHE, config_db>>
       ELSE
          /\ config_db' = IF store_ok THEN Updates(payload, config_db)
                          ELSE config_db
          /\ CONFIG_CACHE' = Updates(payload, CONFIG_CACHE)
    /\ resp' = Resp(NoIP, "config")
    /\ written' = NoDocs
    /\ enf_call' = NoCall
    /\ UNCHANGED <<aggvars, env,
                   whitelist, blocked_ips, blocked_ips_history,
                   iptables, timers, tasks, since, removing, ever_blocked>>

update_config(payload, store_ok) ==
    LET empty == payload.threshold = None /\ payload.block_duration_sec = None
    IN
    /\ IF BadUpdate(payload) \/ empty \/ ~store_ok THEN
          UNCHANGED <<CONFIG_CACHE, config_db>>
       ELSE
          /\ config_db' = Updates(payload, config_db)
          /\ CONFIG_CACHE' = Updates(payload, CONFIG_CACHE)
    /\ resp' = Resp(NoIP, "config")
    /\ written' = NoDocs
    /\ enf_call' = NoCall
    /\ UNCHANGED <<aggvars, env,
                   whitelist, blocked_ips, blocked_ips_history,
                   iptables, timers, tasks, since, removing, ever_blocked>>

\* -------------------------------------------------------------------- clock
\* One tick of the clock, seen by every request that has read it.
Tick ==
    /\ \E t \in TaskIds : Started(t) /\ since[t] < MaxSince
    /\ since' = Ticked(since)
    /\ Quiet
    /\ UNCHANGED <<aggvars, env,
                   CONFIG_CACHE, config_db, whitelist, blocked_ips,
                   blocked_ips_history, iptables, timers, tasks, removing,
                   ever_blocked>>

Next ==
    \/ \E t \in TaskIds, fv \in FeatureVecs, prob \in Probs, pred \in Preds :
          detect(t, target, fv, prob, pred)
    \/ \E t \in TaskIds, fv \in FeatureVecs :
          detect_predict_raises(t, target, fv)
    \/ \E t \in TaskIds, d \in ManualDurations, note \in Notes :
          manual_block(t, target, d, note)
    \/ \E t \in TaskIds : SBU_Find(t)
    \/ \E t \in TaskIds : SBU_Insert(t)
    \/ \E t \in TaskIds : SBU_History(t)
    \/ \E t \in TaskIds : SBU_HistoryFail(t)
    \/ \E t \in TaskIds, avail \in BOOLEAN, cmd_ok \in BOOLEAN :
          SBU_Apply(t, avail, cmd_ok)
    \/ \E tm \in timers, avail \in BOOLEAN, cmd_ok \in BOOLEAN :
          delayed_unblock(tm, avail, cmd_ok)
    \/ manual_unblock(target)
    \/ \E avail \in BOOLEAN, cmd_ok \in BOOLEAN :
          remove_block_unblock(target, avail, cmd_ok)
    \/ \E e \in blocked_ips : TTLExpire(e)
    \/ add_whitelist(target)
    \/ remove_whitelist(target)
    \/ \E payload \in ConfigUpdates, store_ok \in BOOLEAN :
          update_config(payload, store_ok)
    \/ Tick

\* ================================================= realtime_extractor.py
\* A record value in its normal form: the value r itself, compared once when
\* it is built, so that every record held in a state has its fields in order
\* before any step reads it.
Normal(r) == IF r = r THEN r ELSE r

\* An Event as far as the aggregation reads it.
Event(ts, src, shape) ==
    Normal([ts |-> ts, src_ip |-> src, size |-> shape.size,
            dport |-> shape.dport, proto |-> shape.proto,
            is_syn |-> shape.is_syn])

\* packet_to_event: None without an IP layer; else the event of the packet.
\* The port and the flags are read under "try"; when an access raises, the
\* "except: pass" leaves the fields not yet assigned at their defaults
\* (dport None, is_syn 0) and the event is returned all the same.
packet_to_event(ts, src, pkt) ==
    IF ~pkt.ip THEN None
    ELSE <<Event(ts, src,
                 [size |-> pkt.size,
                  dport |-> IF pkt.l4 \in {"TCP", "UDP"} /\ pkt.parse # "dport"
                            THEN <<pkt.dport>> ELSE None,
                  proto |-> pkt.l4,
                  is_syn |-> IF pkt.l4 = "TCP" /\ pkt.parse = "ok"
                             THEN pkt.syn ELSE 0])>>

\* total_bytes, syn_count, the set of destination ports of a deque.
RECURSIVE SumSize(_)
SumSize(dq) == IF dq = <<>> THEN 0 ELSE Head(dq).size + SumSize(Tail(dq))
RECURSIVE SumSyn(_)
SumSyn(dq) == IF dq = <<>> THEN 0 ELSE Head(dq).is_syn + SumSyn(Tail(dq))
DstPorts(dq) ==
    {dq[i].dport[1] : i \in {j \in 1..Len(dq) : dq[j].dport # None}}
RECURSIVE MinTs(_)
MinTs(dq) ==
    IF Len(dq) = 1 THEN dq[1].ts ELSE Min(Head(dq).ts, MinTs(Tail(dq)))
RECURSIVE MaxTs(_)
MaxTs(dq) ==
    IF Len(dq) = 1 THEN dq[1].ts ELSE Max(Head(dq).ts, MaxTs(Tail(dq)))

\* "if" in place of "while": one popleft() at most.
DropOne(dq, window_start) ==
    IF dq # <<>> /\ Head(dq).ts < window_start THEN Tail(dq) ELSE dq

\* while dq and dq[0].ts < window_start: dq.popleft()
RECURSIVE DropOld(_, _)
DropOld(dq, window_start) ==
    IF dq # <<>> /\ Head(dq).ts < window_start
    THEN DropOld(Tail(dq), window_start)
    ELSE dq

\* len(dst_ports) without its "or 1".
LenDstPorts(n) == n

\* len(dst_ports) or 1
LenDstPortsOr1(n) == IF n = 0 THEN 1 ELSE n

\* One second, in the unit of the durations.
Second == 1000000

\* The features dictionary over a non-empty deque.  Durations are in
\* microseconds, so that max(last_ts - first_ts, 1e-6) is Max(.., 1); the
\* loop sets first_ts and last_ts at its first event, which leaves the
\* window_size branch of the duration to an empty deque only.  A rate is
\* the pair <<count, duration>> of its division.
Features(src, dq) ==
    LET duration == Max((MaxTs(dq) - MinTs(dq)) * Second, 1) IN
    Normal([src_ip |-> src, total_packets |-> Len(dq),
            total_bytes |-> SumSize(dq),
            duration |-> duration,
            pkts_per_sec |-> <<Len(dq), duration>>,
            bytes_per_sec |-> <<SumSize(dq), duration>>,
            syn_count |-> SumSyn(dq),
            unique_dst_ports |-> LenDstPortsOr1(Cardinality(DstPorts(dq)))])

\* buffers.get(src): the deque of src, or the empty deque for None (the code
\* treats both alike: "if not dq").
BufferGet(src) == IF src \in DOMAIN buffers THEN buffers[src] ELSE <<>>

\* d[k] = v on a dict, and del d[k] (a KeyError is passed over).
DictSet(d, k, v) == [x \in (DOMAIN d) \cup {k} |-> IF x = k THEN v ELSE d[x]]
DictDel(d, k) == [x \in (DOMAIN d) \ {k} |-> d[x]]

\* The aggregator between two passes.  trimmed is what the trim left in the
\* deque the aggregation loop walks; features_batch holds the sources of the
\* features collected in the pass and not yet posted (without --post the
\* features are only printed, and the list is not followed); results is how
\* the last POST of the pass ended ("none" before the first).
AggIdle ==
    Normal([pc |-> "snapshot", srcs |-> <<>>, src |-> NoIP, now |-> 0,
            feat |-> None, popped |-> 0, trimmed |-> <<>>,
            features_batch |-> <<>>, results |-> "none"])

\* The replay thread before rdpcap, and where no replay thread runs.
\* left: packets of the capture not yet replayed; sets: calls of
\* replay_done.set().
ReplayStart == Normal([pc |-> "rdpcap", left |-> 0, sets |-> 0])
ReplayOff == Normal([pc |-> "off", left |-> 0, sets |-> 0])

\* "with buffers_lock:" entered without waiting for the lock.
EnterAnyway(thread) == TRUE

\* The history variable uncounted: NotFollowed in the runs that do not keep
\* it, else NoneUncounted before the first event and Follow(f) after a step
\* of a thread that appends, counts or removes events.
NotFollowed == <<>>
NoneUncounted == [src \in IPs |-> 0]
Follow(f) == IF uncounted = NotFollowed THEN uncounted ELSE f

\* "with buffers_lock:" is entered by a thread once the lock is free.
Enter(thread) == buffers_lock = "free"

\* push_event: under the lock, append and note the activity.  The
\* aggregator reads last_activity without the lock; it reads no buffer
\* between the two assignments, so they are one step.
push_event(event) ==
    /\ Enter("pusher")
    /\ buffers' = DictSet(buffers, event.src_ip,
                          Append(BufferGet(event.src_ip), event))
    /\ last_activity' = DictSet(last_activity, event.src_ip, event.ts)
    /\ uncounted' = Follow([uncounted EXCEPT ![event.src_ip] = @ + 1])

RECURSIVE Buffered(_)
Buffered(S) ==
    IF S = {} THEN 0
    ELSE LET x == CHOOSE y \in S : TRUE
         IN  Len(buffers[x]) + Buffered(S \ {x})

\* start_live_sniff: the callback of sniff() pushes the packet's event;
\* push_event returns at once on None.
start_live_sniff(ts, src, pkt) ==
    LET ev == packet_to_event(ts, src, pkt) IN
    /\ mode = "live"
    /\ Buffered(DOMAIN buffers) < MaxEvents
    /\ IF ev = None THEN UNCHANGED <<buffers, last_activity, uncounted>>
       ELSE push_event(ev[1])
    /\ UNCHANGED <<apivars, wall, params, pace, replay_done, agg, replay,
                   buffers_lock>>

\* start_replay_missing without its replay_done.set().
start_replay_missing_noset ==
    /\ replay.pc = "rdpcap"
    /\ replay' = [replay EXCEPT !.pc = "returned"]
    /\ UNCHANGED <<apivars, buffers, last_activity, wall, params, pace,
                   uncounted, agg,
                   buffers_lock, replay_done>>

\* start_replay: rdpcap raises FileNotFoundError.
start_replay_missing ==
    /\ replay.pc = "rdpcap"
    /\ replay_done' = TRUE
    /\ replay' = [replay EXCEPT !.pc = "returned", !.sets = @ + 1]
    /\ UNCHANGED <<apivars, buffers, last_activity, wall, params, pace,
                   uncounted, agg,
                   buffers_lock>>

\* start_replay: rdpcap returns n packets; "if not pkts" for none.
start_replay_read(n) ==
    /\ replay.pc = "rdpcap"
    /\ IF n = 0 THEN
          /\ replay_done' = TRUE
          /\ replay' = [replay EXCEPT !.pc = "returned", !.sets = @ + 1]
       ELSE
          /\ replay' = [replay EXCEPT !.pc = "loop", !.left = n]
          /\ UNCHANGED replay_done
    /\ UNCHANGED <<apivars, buffers, last_activity, wall, params, pace,
                   uncounted, agg,
                   buffers_lock>>

\* start_replay, one turn of the loop after its sleep: push_event of the
\* packet's event; for a packet without an IP layer packet_to_event gives
\* None and push_event returns at once.
start_replay_packet(ts, src, pkt) ==
    LET ev == packet_to_event(ts, src, pkt) IN
    /\ replay.pc = "loop"
    /\ replay.left > 0
    /\ IF ev = None THEN UNCHANGED <<buffers, last_activity, uncounted>>
       ELSE push_event(ev[1])
    /\ replay' = [replay EXCEPT !.left = @ - 1]
    /\ UNCHANGED <<apivars, wall, params, pace, replay_done, agg,
                   buffers_lock>>

\* start_replay has pushed its last packet: replay_done.set().
finish_replay ==
    /\ replay.pc = "loop"
    /\ replay.left = 0
    /\ replay_done' = TRUE
    /\ replay' = [replay EXCEPT !.pc = "returned", !.sets = @ + 1]
    /\ UNCHANGED <<apivars, buffers, last_activity, wall, params, pace,
                   uncounted, agg,
                   buffers_lock>>

\* The keys of the deques that hold an event.
KeysNonempty == {x \in DOMAIN buffers : buffers[x] # <<>>}

\* buffers.keys()
Keys == DOMAIN buffers

\* list(...) of a set of keys, in some order.
Orders(S) ==
    {sq \in [1..Cardinality(S) -> S] :
        \A i, j \in 1..Cardinality(S) : i # j => sq[i] # sq[j]}

\* start_aggregator, top of the loop: snapshot the active sources.
start_aggregator_snapshot(srcs) ==
    /\ agg.pc = "snapshot"
    /\ Enter("aggregator")
    /\ srcs \in Orders(Keys)
    /\ agg' = [AggIdle EXCEPT !.pc = "next", !.srcs = srcs]
    /\ UNCHANGED <<apivars, buffers, last_activity, wall, params, pace,
                   uncounted, replay_done, replay, buffers_lock>>

\* compute_features_for_src, before the lock: now = time.time()
compute_features_now ==
    /\ agg.pc = "next"
    /\ agg.srcs # <<>>
    /\ agg' = [agg EXCEPT !.pc = "compute", !.src = Head(agg.srcs),
                          !.srcs = Tail(agg.srcs), !.now = wall]
    /\ UNCHANGED <<apivars, buffers, last_activity, wall, params, pace,
                   uncounted, replay_done, replay, buffers_lock>>

\* compute_features_for_src from taking the lock to the end of the trim:
\* "return None" (which releases the lock) on a missing or empty deque,
\* else on to the aggregation loop with the lock held.
compute_features_trim ==
    LET src          == agg.src
        window_start == agg.now - window_size
        dq           == BufferGet(src)
        kept         == DropOld(dq, window_start)
    IN
    /\ agg.pc = "compute"
    /\ Enter("aggregator")
    /\ IF dq = <<>> THEN
          /\ agg' = [agg EXCEPT !.pc = "idle", !.feat = None, !.popped = 0]
          /\ UNCHANGED <<buffers, buffers_lock, uncounted>>
       ELSE
          /\ buffers' = [buffers EXCEPT ![src] = kept]
          /\ uncounted' = Follow([uncounted EXCEPT ![src] = Min(@, Len(kept))])
          /\ agg' = [agg EXCEPT
                !.pc = IF kept = <<>> THEN "idle" ELSE "aggregate",
                !.feat = None,
                !.popped = Len(dq) - Len(kept),
                !.trimmed = kept]
          /\ buffers_lock' = IF kept = <<>> THEN "free" ELSE "aggregator"
    /\ UNCHANGED <<apivars, last_activity, wall, params, pace, replay_done,
                   replay>>

\* compute_features_for_src returning with buffers_lock still held.
compute_features_keep_lock ==
    /\ agg.pc = "aggregate"
    /\ agg' = [agg EXCEPT !.pc = "idle",
                          !.feat = <<Features(agg.src, buffers[agg.src])>>,
                          !.trimmed = <<>>,
                          !.features_batch = IF post THEN Append(@, agg.src) ELSE @]
    /\ buffers_lock' = "aggregator"
    /\ uncounted' = Follow([uncounted EXCEPT ![agg.src] = 0])
    /\ UNCHANGED <<apivars, buffers, last_activity, wall, params, pace,
                   replay_done, replay>>

\* compute_features_for_src, the loop over dq and the features dictionary;
\* the return releases the lock, and the caller appends the features to
\* features_batch.
compute_features_for_src ==
    /\ agg.pc = "aggregate"
    /\ agg' = [agg EXCEPT !.pc = "idle",
                          !.feat = <<Features(agg.src, buffers[agg.src])>>,
                          !.trimmed = <<>>,
                          !.features_batch = IF post THEN Append(@, agg.src) ELSE @]
    /\ buffers_lock' = "free"
    /\ uncounted' = Follow([uncounted EXCEPT ![agg.src] = 0])
    /\ UNCHANGED <<apivars, buffers, last_activity, wall, params, pace,
                   replay_done, replay>>

\* last_activity.get(src, 0.0) and the idle test, outside the lock.
idle_check ==
    LET last_ts == IF agg.src \in DOMAIN last_activity
                   THEN last_activity[agg.src] ELSE 0
    IN
    /\ agg.pc = "idle"
    /\ agg' = [agg EXCEPT
          !.pc = IF wall - last_ts > keep_idle_for THEN "evict" ELSE "next",
          !.feat = None, !.popped = 0, !.now = 0]
    /\ UNCHANGED <<apivars, buffers, last_activity, wall, params, pace,
                   uncounted, replay_done, replay, buffers_lock>>

\* del buffers[src]; del last_activity[src], under the lock; a KeyError
\* ends the block.
\* The idle eviction deleting the deque and leaving the last-activity record.
evict_buffers_only ==
    /\ agg.pc = "evict"
    /\ Enter("aggregator")
    /\ IF agg.src \in DOMAIN buffers THEN
          /\ buffers' = DictDel(buffers, agg.src)
          /\ uncounted' = Follow([uncounted EXCEPT ![agg.src] = 0])
       ELSE UNCHANGED <<buffers, uncounted>>
    /\ agg' = [agg EXCEPT !.pc = "next"]
    /\ UNCHANGED <<apivars, last_activity, wall, params, pace, replay_done,
                   replay, buffers_lock>>

evict ==
    /\ agg.pc = "evict"
    /\ Enter("aggregator")
    /\ IF agg.src \in DOMAIN buffers THEN
          /\ buffers' = DictDel(buffers, agg.src)
          /\ last_activity' = DictDel(last_activity, agg.src)
          /\ uncounted' = Follow([uncounted EXCEPT ![agg.src] = 0])
       ELSE UNCHANGED <<buffers, last_activity, uncounted>>
    /\ agg' = [agg EXCEPT !.pc = "next"]
    /\ UNCHANGED <<apivars, wall, params, pace, replay_done, replay,
                   buffers_lock>>

\* any_nonempty taken as false without a look at the deques.
AnyNonemptyNever == FALSE

\* any(len(dq) > 0 for dq in buffers.values())
AnyNonempty == \E x \in DOMAIN buffers : Len(buffers[x]) > 0

\* End of the loop over srcs with --post and features to send: the
\* aggregator calls post_features_to_api, which does one requests.post
\* (timeout 5 s) per feature dictionary, each awaited before the next.
\* agg.pc = "post": the aggregator thread is inside requests.post for the
\* first source of features_batch.
post_features_to_api_call ==
    /\ agg.pc = "next"
    /\ agg.srcs = <<>>
    /\ post
    /\ agg.features_batch # <<>>
    /\ agg' = [agg EXCEPT !.pc = "post"]
    /\ UNCHANGED <<apivars, buffers, last_activity, wall, params, pace,
                   uncounted, replay_done, replay, buffers_lock>>

\* post_features_to_api whose "except Exception" is missing: an exception of
\* requests.post ends the aggregator thread.
post_features_to_api_raises(outcome) ==
    /\ agg.pc = "post"
    /\ agg' = IF outcome = "timeout"
              THEN [AggIdle EXCEPT !.pc = "exited", !.results = outcome]
              ELSE [agg EXCEPT
                      !.pc = IF Tail(agg.features_batch) = <<>>
                             THEN "next" ELSE "post",
                      !.features_batch = Tail(@),
                      !.results = outcome]
    /\ UNCHANGED <<apivars, buffers, last_activity, wall, params, pace,
                   uncounted, replay_done, replay, buffers_lock>>

\* requests.post returns or raises (the exception is caught and noted in
\* out); the next feature dictionary is posted, or the call returns.
post_features_to_api(outcome) ==
    /\ agg.pc = "post"
    /\ agg' = [agg EXCEPT
          !.pc = IF Tail(agg.features_batch) = <<>> THEN "next" ELSE "post",
          !.features_batch = Tail(@),
          !.results = outcome]
    /\ UNCHANGED <<apivars, buffers, last_activity, wall, params, pace,
                   uncounted, replay_done, replay, buffers_lock>>

\* end_of_pass without the test of replay_done.
end_of_pass_nodone ==
    /\ agg.pc = "next"
    /\ agg.srcs = <<>>
    /\ ~post \/ agg.features_batch = <<>>
    /\ agg' = IF mode = "replay" /\ ~AnyNonempty
              THEN [AggIdle EXCEPT !.pc = "exited"]
              ELSE AggIdle
    /\ UNCHANGED <<apivars, buffers, last_activity, wall, params, pace,
                   uncounted, replay_done, replay, buffers_lock>>

\* End of a pass, the features printed or posted: the replay termination
\* test, else sleep until the next.
end_of_pass ==
    /\ agg.pc = "next"
    /\ agg.srcs = <<>>
    /\ ~post \/ agg.features_batch = <<>>
    /\ agg' = IF mode = "replay" /\ replay_done /\ ~AnyNonempty
              THEN [AggIdle EXCEPT !.pc = "exited"]
              ELSE AggIdle
    /\ UNCHANGED <<apivars, buffers, last_activity, wall, params, pace,
                   uncounted, replay_done, replay, buffers_lock>>

WallTick ==
    /\ wall < MaxWall
    /\ wall' = wall + 1
    /\ UNCHANGED <<apivars, buffers, last_activity, params, pace, uncounted,
                   replay_done, agg, replay, buffers_lock>>

\* wait = max(0.0, (cur_ts - prev_ts) / max(1.0, speed)), in seconds; the
\* speed is in halves, and the timestamps are such that the division is
\* exact.
Wait(cur_ts, prev_ts, sp) ==
    Max(0, (2 * (cur_ts - prev_ts)) \div Max(2, sp))

\* The pacing of the replay thread before its first turn: prev_ts is the
\* time of the first packet (0 here), no wait computed yet.
PaceStart == Normal([prev_ts |-> 0, wait |-> 0])

\* start_replay, one turn of the loop up to its sleep: cur_ts, the wait, and
\* prev_ts = cur_ts.  The extractor's own specifications leave the length of
\* the sleeps to the scheduling of the thread's steps and do not follow the
\* pacing.
start_replay_sleep(cur_ts) ==
    /\ mode = "replay"
    /\ pace' = Normal([prev_ts |-> cur_ts,
                       wait |-> Wait(cur_ts, pace.prev_ts, speed)])
    /\ UNCHANGED <<apivars, buffers, last_activity, wall, params, replay_done,
                   agg, replay, buffers_lock, uncounted>>

\* The steps of the replay thread.
start_replay ==
    \/ start_replay_missing
    \/ \E n \in 0..MaxEvents : start_replay_read(n)
    \/ \E ts \in CaptureTimes, src \in IPs, pkt \in PacketShapes :
          start_replay_packet(ts, src, pkt)
    \/ finish_replay

\* The steps of the aggregator thread.
start_aggregator ==
    \/ \E srcs \in Orders(Keys) : start_aggregator_snapshot(srcs)
    \/ compute_features_now
    \/ compute_features_trim
    \/ compute_features_for_src
    \/ idle_check
    \/ evict
    \/ end_of_pass

\* The steps of the aggregator thread with --post.
start_aggregator_post ==
    \/ start_aggregator
    \/ post_features_to_api_call
    \/ \E outcome \in PostOutcomes : post_features_to_api(outcome)

\* The extractor in replay mode.
ReplayNext ==
    \/ start_replay
    \/ start_aggregator
    \/ WallTick

AggNext ==
    \/ \E ts \in WallTimes, src \in IPs, pkt \in PacketShapes :
          start_live_sniff(ts, src, pkt)
    \/ ReplayNext

AggInit ==
    /\ buffers = <<>>
    /\ last_activity = <<>>
    /\ wall = 0
    /\ mode \in {"replay", "live"}
    /\ replay_done = FALSE
    /\ agg = AggIdle
    /\ replay = IF mode = "replay" THEN ReplayStart ELSE ReplayOff
    /\ buffers_lock = "free"
    /\ post \in BOOLEAN
    /\ speed = DefaultSpeed
    /\ pace = PaceStart
    /\ uncounted \in {NotFollowed, NoneUncounted}

\* The API service after startup, beside an extractor that has not started.
Init ==
    ApiInit /\ AggInit /\ mode = "live" /\ ~post /\ uncounted = NotFollowed

\* The API service.
Spec == Init /\ [][Next]_vars

\* The policy under administration: update_config with bodies that change
\* it, and the detections that read it.
PolicyInit == Init
PolicyNext ==
    \/ \E payload \in PolicyUpdates, store_ok \in BOOLEAN :
          update_config(payload, store_ok)
    \/ \E t \in TaskIds, fv \in FeatureVecs, prob \in Probs, pred \in Preds :
          detect(t, target, fv, prob, pred)
PolicySpec == PolicyInit /\ [][PolicyNext]_vars

\* The extractor after its start without --post (it prints its features),
\* beside an API service that gets no request.
ExtractorInit ==
    /\ ApiInit
    /\ ~USE_REAL_BLOCKING /\ ttl_index /\ target = PublicIP
    /\ CONFIG_CACHE.blocking_enabled
    /\ AggInit
    /\ ~post
    /\ uncounted = NotFollowed

\* The extractor.
AggSpec == ExtractorInit /\ [][AggNext]_vars

\* The sniffer of an extractor in live mode, over packets some of which
\* cannot be parsed.
ParseInit == ExtractorInit /\ mode = "live"

ParseNext ==
    \/ \E src \in IPs, pkt \in ParsePackets : start_live_sniff(0, src, pkt)

ParseSpec == ParseInit /\ [][ParseNext]_vars

\* The pacing of a replay at any of the speeds.
PaceInit ==
    /\ ApiInit
    /\ ~USE_REAL_BLOCKING /\ ttl_index /\ target = PublicIP
    /\ CONFIG_CACHE.blocking_enabled
    /\ buffers = <<>>
    /\ last_activity = <<>>
    /\ wall = 0
    /\ mode = "replay"
    /\ replay_done = FALSE
    /\ agg = AggIdle
    /\ replay = ReplayStart
    /\ buffers_lock = "free"
    /\ post = FALSE
    /\ speed \in Speeds
    /\ pace = PaceStart
    /\ uncounted = NotFollowed

PaceNext ==
    \/ \E cur_ts \in PaceTimes : start_replay_sleep(cur_ts)

PaceSpec == PaceInit /\ [][PaceNext]_vars

\* The extractor started with --mode replay.
ReplayInit == ExtractorInit /\ mode = "replay"

\* The threads of the extractor are scheduled and its clock advances: the
\* replay thread reads its capture and replays it to the end, the aggregator
\* wakes up from every sleep.
ReplayFairness ==
    /\ WF_vars(start_replay)
    /\ WF_vars(start_aggregator)
    /\ WF_vars(WallTick)

ReplaySpec == ReplayInit /\ [][ReplayNext]_vars /\ ReplayFairness

\* The replay of a capture with the history of its events kept: which of
\* them a features dictionary has counted.
CountInit ==
    /\ ApiInit
    /\ ~USE_REAL_BLOCKING /\ ttl_index /\ target = PublicIP
    /\ CONFIG_CACHE.blocking_enabled
    /\ AggInit
    /\ mode = "replay"
    /\ ~post
    /\ uncounted = NoneUncounted

CountNext ==
    \/ start_replay
    \/ start_aggregator
    \/ WallTick

CountSpec == CountInit /\ [][CountNext]_vars

\* The extractor started with --mode replay --post: the features of every
\* pass are posted to the detection endpoint.
PostInit ==
    /\ ApiInit
    /\ ~USE_REAL_BLOCKING /\ ttl_index /\ target = PublicIP
    /\ CONFIG_CACHE.blocking_enabled
    /\ AggInit
    /\ mode = "replay"
    /\ post
    /\ uncounted = NotFollowed

PostNext ==
    \/ start_replay
    \/ start_aggregator_post
    \/ WallTick

\* The threads are scheduled, the clock advances, and every requests.post
\* returns (it has a timeout).
PostFairness ==
    /\ WF_vars(start_replay)
    /\ WF_vars(start_aggregator_post)
    /\ WF_vars(WallTick)

PostSpec == PostInit /\ [][PostNext]_vars /\ PostFairness

\* The API service with its scheduling made fair: the clock advances, the
\* event loop runs every coroutine that is ready, a due delayed_unblock
\* wakes up, and MongoDB's TTL monitor comes round to every expired document
\* of an indexed collection.  Administrative requests are under no
\* obligation.
Fairness ==
    /\ WF_vars(Tick)
    /\ WF_vars(\E t \in TaskIds : SBU_Find(t))
    /\ WF_vars(\E t \in TaskIds : SBU_Insert(t))
    /\ WF_vars(\E t \in TaskIds : SBU_History(t))
    /\ WF_vars(\E t \in TaskIds, avail \in BOOLEAN, cmd_ok \in BOOLEAN :
                   SBU_Apply(t, avail, cmd_ok))
    /\ WF_vars(\E tm \in timers, avail \in BOOLEAN, cmd_ok \in BOOLEAN :
                   delayed_unblock(tm, avail, cmd_ok))
    /\ WF_vars(\E ip \in IPs, avail \in BOOLEAN, cmd_ok \in BOOLEAN :
                   remove_block_unblock(ip, avail, cmd_ok))
    /\ WF_vars(\E e \in blocked_ips : TTLExpire(e))

\* A deployment with mocked enforcement and mitigation enabled, receiving
\* requests about a public address.
FairInit ==
    /\ Init
    /\ ~USE_REAL_BLOCKING /\ target = PublicIP
    /\ CONFIG_CACHE.blocking_enabled

FairSpec == FairInit /\ [][Next]_vars /\ Fairness

\* /detect called once with any of the ClassifyVecs, on a deployment with
\* mocked enforcement and mitigation enabled.
ClassifyInit == FairInit /\ ttl_index

ClassifyNext ==
    \/ \E fv \in ClassifyVecs, prob \in Probs, pred \in Preds :
          detect(1, target, fv, prob, pred)

ClassifySpec == ClassifyInit /\ [][ClassifyNext]_vars

\* ================================================================== claims

\* C1.  At most one active BlockEntry per address in every reachable state,
\* whatever the interleaving of the block requests for that address.
C1_OneActiveEntryPerAddress ==
    \A e1, e2 \in blocked_ips : e1.ip = e2.ip => e1 = e2

\* C2.  A block request whose existence check finds an active BlockEntry for
\* its address is a suppressed no-op: the step that takes it past the check
\* ends it, and leaves the active entries, the history, the enforcement
\* rules and the pending expiry tasks as they were, with no enforcement
\* call.
C2_SuppressedNoOp ==
    [][\A t \in TaskIds :
          (/\ tasks[t].pc = "find"
           /\ tasks'[t].pc # "find"
           /\ \E e \in blocked_ips : e.ip = tasks[t].ip)
          => /\ tasks'[t].pc = "done"
             /\ blocked_ips' = blocked_ips
             /\ blocked_ips_history' = blocked_ips_history
             /\ ever_blocked' = ever_blocked
             /\ timers' = timers
             /\ iptables' = iptables
             /\ enf_call' = NoCall
             /\ written' = NoDocs]_vars

\* A request has just been suppressed, and the entry that suppressed it is
\* there.
C2_Suppressed ==
    /\ resp.what = "suppressed"
    /\ \E e \in blocked_ips : e.ip = resp.ip

\* C3.  While an address is on the whitelist, no step inserts an active
\* BlockEntry for it.
C3_NoEntryWhileWhitelisted ==
    [][\A e \in blocked_ips' \ blocked_ips : e.ip \notin whitelist]_vars

\* C4.  Whenever an enforcement helper (apply or remove) is called for a
\* private address, it refuses before any mock or backend step.
C4_PrivateRefused ==
    (enf_call.op # "none" /\ IsPrivate(enf_call.ip))
        => enf_call.outcome = "refused"

\* C5.  On a buffer whose events are in non-decreasing timestamp order,
\* compute_features_for_src with reference time T = agg.now returns the
\* features of exactly the events with ts >= T - window_size (their number,
\* their summed size, their SYN count), returns None when there is none, and
\* leaves exactly those events in the buffer.
InOrder(dq) == \A i, j \in 1..Len(dq) : i <= j => dq[i].ts <= dq[j].ts
InWindow(dq, T) == SelectSeq(dq, LAMBDA ev : ev.ts >= T - window_size)

C5_WindowExact ==
    [][/\ (/\ agg.pc = "compute"
           /\ agg'.pc # "compute"
           /\ InOrder(BufferGet(agg.src)))
          => LET sub == InWindow(BufferGet(agg.src), agg.now) IN
             /\ sub = IF agg.src \in DOMAIN buffers' THEN buffers'[agg.src]
                      ELSE <<>>
             /\ sub = <<>> => (agg'.pc = "idle" /\ agg'.feat = None)
             /\ sub # <<>> => (agg'.pc = "aggregate" /\ agg'.trimmed = sub)
       /\ (agg.pc = "aggregate" /\ agg'.pc # "aggregate")
          => /\ agg'.pc = "idle"
             /\ agg'.feat # None
             /\ agg'.feat[1].src_ip = agg.src
             /\ agg'.feat[1].total_packets = Len(agg.trimmed)
             /\ agg'.feat[1].total_bytes = SumSize(agg.trimmed)
             /\ agg'.feat[1].syn_count = SumSyn(agg.trimmed)
             /\ buffers' = buffers]_vars

\* compute_features_for_src has just dropped one old event from an ordered
\* buffer and returned the features of the two that remain.
C5_Trimmed ==
    /\ agg.pc = "idle"
    /\ agg.popped = 1
    /\ agg.feat # None
    /\ agg.feat[1].total_packets = 2
    /\ InOrder(buffers[agg.src])

\* C6.  remove_block for an address without an active BlockEntry leaves the
\* active entries and the history as they are and answers without error;
\* its delete leaves no entry of the address, so that a second one changes
\* nothing.
C6_UnblockIdempotent ==
    /\ [](\A ip \in IPs :
            /\ \A e \in DeleteMany(blocked_ips, ip) : e.ip # ip
            /\ DeleteMany(DeleteMany(blocked_ips, ip), ip)
                   = DeleteMany(blocked_ips, ip))
    /\ [][\A ip \in IPs :
            /\ (ip \in removing' \ removing)
                   => /\ \A e \in blocked_ips' : e.ip # ip
                      /\ blocked_ips_history' = blocked_ips_history
                      /\ (\A e \in blocked_ips : e.ip # ip)
                             => blocked_ips' = blocked_ips
            /\ (ip \in removing \ removing')
                   => /\ resp' = Resp(ip, "unblocked")
                      /\ blocked_ips' = blocked_ips
                      /\ blocked_ips_history' = blocked_ips_history]_vars

\* An unblock has just completed for an address that was never blocked.
C6_UnblockedNothing ==
    /\ resp.what = "unblocked"
    /\ enf_call.via = "remove_block"
    /\ ever_blocked = {}
    /\ blocked_ips = {}
    /\ blocked_ips_history = {}

\* C7.  When a deferred expiry task fires, no active BlockEntry of its
\* address is left, and enforcement remove has been attempted.
C7_TimerRemovesEntry ==
    [][\A tm \in timers \ timers' :
          /\ \A e \in blocked_ips' : e.ip # tm.ip
          /\ enf_call'.op = "remove"
          /\ enf_call'.ip = tm.ip]_vars

\* C8.  Every active BlockEntry eventually ceases to exist, without any
\* administrative unblock and whether or not the store expires documents.
C8_EntryEventuallyGone ==
    \A t \in TaskIds :
        (\E e \in blocked_ips : e.id = t) ~> (\A e \in blocked_ips : e.id # t)

\* C9.  Every BlockEntry and every BlockHistoryEntry is written with
\* unblock_at = blocked_at + duration_sec, and the BlockEntry with
\* expireAt = unblock_at.
C9_UnblockAtExact ==
    \A i \in 1..Len(written) :
        written[i].coll \in {"blocked_ips", "blocked_ips_history"}
            => /\ written[i].unblock_at
                      = written[i].blocked_at + written[i].duration_sec
               /\ written[i].coll = "blocked_ips"
                      => written[i].expireAt = written[i].unblock_at

\* C10.  Every BlockEntry that exists or has existed has a history entry
\* with its address, duration, reason and actor, and no step deletes or
\* modifies a history entry.
C10_HistoryComplete ==
    /\ [](\A a \in ever_blocked :
            \E h \in blocked_ips_history :
                /\ h.ip = a.ip
                /\ h.duration_sec = a.duration_sec
                /\ h.reason = a.reason
                /\ h.actor = a.actor)
    /\ [][blocked_ips_history \subseteq blocked_ips_history']_vars

\* C11.  With the mitigation toggle off, a positive non-whitelisted
\* detection stores the flow and an alert carrying the attack verdict and
\* its attack type, and nothing more: no background task, no BlockEntry, no
\* history entry, no enforcement call, no deferred expiry task; so that no
\* task, entry or history entry of the model's making ever exists.
C11_DisabledDetectsOnly ==
    /\ [](~CONFIG_CACHE.blocking_enabled =>
            /\ \A t \in TaskIds : tasks[t].kind # "detect"
            /\ \A a \in ever_blocked : a.actor # "model"
            /\ \A e \in blocked_ips : e.actor # "model"
            /\ \A h \in blocked_ips_history : h.actor # "model")
    /\ [][(/\ ~CONFIG_CACHE.blocking_enabled
           /\ target \notin whitelist
           /\ \E t \in TaskIds : tasks[t].pc = "idle" /\ tasks'[t].pc # "idle"
           /\ resp'.what \notin {"rejected", "error"}
           /\ written' # NoDocs
           /\ written'[2].score >= CONFIG_CACHE.threshold)
          => /\ Len(written') = 2
             /\ written'[1].coll = "flows"
             /\ written'[1].src_ip = target
             /\ written'[2].coll = "alerts"
             /\ written'[2].src_ip = target
             /\ written'[2].attack
             /\ written'[2].attack_type # "None"
             /\ \A t \in TaskIds : tasks'[t].pc \in {"idle", "done"}
                                        \/ tasks'[t] = tasks[t]
             /\ blocked_ips' = blocked_ips
             /\ blocked_ips_history' = blocked_ips_history
             /\ ever_blocked' = ever_blocked
             /\ iptables' = iptables
             /\ timers' = timers
             /\ enf_call' = NoCall]_vars

\* /detect has just answered a positive detection with mitigation off: the
\* alert is stored with the attack verdict, nothing is blocked.
C11_DisabledAlert ==
    /\ ~CONFIG_CACHE.blocking_enabled
    /\ resp = Resp(target, "disabled")
    /\ Len(written) = 2
    /\ written[2].attack
    /\ written[2].attack_type = "Port Scan"
    /\ blocked_ips = {}
    /\ timers = {}

\* C12.  classify_attack_type returns the label of the first rule that
\* matches, the rules taken in the order port scan, flood, brute force, bot,
\* and "Suspicious Activity" when none matches: the attack type stored with
\* an attack alert is that label for the features stored with its flow.
C12_FirstMatchWins ==
    (Len(written) = 2 /\ written[2].coll = "alerts" /\ written[2].attack)
    => LET f     == written[1]
           port  == /\ f.unique_dst_ports > 10
                    /\ f.total_packets < 5 * f.unique_dst_ports
           flood == f.pkts_per_sec > 1000 \/ f.bytes_per_sec > 1000000
           brute == f.syn_count > 20 /\ f.pkts_per_sec > 10
           bot   == f.duration > 10 /\ f.pkts_per_sec < 50
       IN  /\ port => written[2].attack_type = "Port Scan"
           /\ (~port /\ flood) => written[2].attack_type = "DDoS"
           /\ (~port /\ ~flood /\ brute)
                  => written[2].attack_type = "Brute Force"
           /\ (~port /\ ~flood /\ ~brute /\ bot)
                  => written[2].attack_type = "Bot"
           /\ (~port /\ ~flood /\ ~brute /\ ~bot)
                  => written[2].attack_type = "Suspicious Activity"

\* 400 ports, 500 packets and a packet rate above the flood threshold: a
\* port scan.
C12_PortScanBeforeFlood ==
    /\ Len(written) = 2
    /\ written[2].coll = "alerts"
    /\ written[2].attack_type = "Port Scan"
    /\ written[1].unique_dst_ports = 400
    /\ written[1].total_packets = 500
    /\ written[1].pkts_per_sec > 1000

\* C13.  The verdict stored with an alert is attack exactly when the score
\* is at least the threshold of the policy in force, whatever the
\* classifier's predicted class; the response says alert = true only with
\* an attack verdict; a step that stores a benign verdict starts no block
\* task.
C13_VerdictByThreshold ==
    /\ [](\A i \in 1..Len(written) :
            written[i].coll = "alerts"
                => /\ written[i].threshold = CONFIG_CACHE.threshold
                   /\ written[i].attack
                          = (written[i].score >= written[i].threshold)
                   /\ ResponseAlert(resp.what) => written[i].attack)
    /\ [][(Len(written') = 2 /\ ~written'[2].attack)
            => \A t \in TaskIds :
                  tasks'[t].pc \in {"idle", "done"} \/ tasks'[t] = tasks[t]]_vars

\* A score equal to the threshold, with the classifier predicting class 0:
\* an attack, answered with alert = true and a block task.
C13_EqualIsAttack ==
    /\ Len(written) = 2
    /\ written[2].score = written[2].threshold
    /\ written[2].model_prediction = 0
    /\ written[2].attack
    /\ ResponseAlert(resp.what)
    /\ \E t \in TaskIds : tasks[t].pc = "find" /\ tasks[t].kind = "detect"

\* C14.  In replay mode the aggregator eventually returns by itself, and
\* only once the replay thread has signalled completion and every buffer is
\* empty; this for a missing capture, an empty one and any capture of up to
\* MaxEvents packets.
C14_ReplayTerminates ==
    /\ <>(agg.pc = "exited")
    /\ [](agg.pc = "exited"
            => /\ replay_done
               /\ \A x \in DOMAIN buffers : buffers[x] = <<>>)

\* The aggregator has returned after a capture whose events were buffered
\* and trimmed away.
C14_ExitedAfterDrain ==
    /\ agg.pc = "exited"
    /\ replay.pc = "returned"
    /\ DOMAIN buffers # {}

\* C15.  The replay thread calls replay_done.set() once on each way out and
\* not before; no step appends an event once the signal is set; a missing
\* or empty capture is signalled by the thread's first step after rdpcap,
\* with nothing appended.
C15_SignalsOnce ==
    /\ [](/\ replay.sets <= 1
          /\ (replay.pc = "returned") <=> (replay.sets = 1)
          /\ replay_done <=> (replay.sets = 1))
    /\ [][/\ replay_done
             => \A x \in DOMAIN buffers' :
                   /\ x \in DOMAIN buffers
                   /\ Len(buffers'[x]) <= Len(buffers[x])
          /\ (replay.pc = "rdpcap" /\ replay'.pc = "returned")
             => (replay_done' /\ buffers' = buffers)]_vars

\* The replay thread has returned after its last packet, its signal set,
\* the events it appended still buffered.
C15_SignalledAfterLast ==
    /\ replay.pc = "returned"
    /\ replay.sets = 1
    /\ replay_done
    /\ \E x \in DOMAIN buffers : Len(buffers[x]) = 2

\* C16.  A feature vector over a single event has the window size as its
\* duration, hence pkts_per_sec = 1 / window_size and bytes_per_sec =
\* size / window_size.
C16_SingleEventWindowDuration ==
    (agg.feat # None /\ agg.feat[1].total_packets = 1)
        => /\ agg.feat[1].duration = window_size * Second
           /\ agg.feat[1].pkts_per_sec = <<1, window_size * Second>>
           /\ agg.feat[1].bytes_per_sec
                  = <<agg.feat[1].total_bytes, window_size * Second>>

\* C17.  Every feature vector returned has unique_dst_ports >= 1,
\* total_packets >= 1 and duration > 0.
C17_PositiveFeatures ==
    agg.feat # None
        => /\ agg.feat[1].unique_dst_ports >= 1
           /\ agg.feat[1].total_packets >= 1
           /\ agg.feat[1].duration > 0

\* A feature vector over a buffer none of whose events has a destination
\* port.
C17_NoPortsCountsOne ==
    /\ agg.pc = "idle"
    /\ agg.feat # None
    /\ agg.src \in DOMAIN buffers
    /\ buffers[agg.src] # <<>>
    /\ DstPorts(buffers[agg.src]) = {}
    /\ agg.feat[1].unique_dst_ports = 1

\* C18.  From the end of the trim to the return of the features the
\* aggregator holds the lock and the deque is what the trim left; the
\* features returned are those of that content; an append happens with the
\* lock free, outside that stretch, adds its event at the end of the deque
\* and loses none, and the aggregation step leaves the buffers alone.
C18_TrimComputeAtomic ==
    /\ [](agg.pc = "aggregate"
            => /\ buffers_lock = "aggregator"
               /\ agg.src \in DOMAIN buffers
               /\ buffers[agg.src] = agg.trimmed)
    /\ [][/\ (agg.pc = "aggregate" /\ agg'.pc # "aggregate")
             => /\ agg'.feat = <<Features(agg.src, agg.trimmed)>>
                /\ buffers' = buffers
          /\ \A x \in DOMAIN buffers' :
                (x \notin DOMAIN buffers
                    \/ Len(buffers'[x]) > Len(BufferGet(x)))
                => /\ buffers_lock = "free"
                   /\ agg.pc # "aggregate"
                   /\ Len(buffers'[x]) = Len(BufferGet(x)) + 1
                   /\ SubSeq(buffers'[x], 1, Len(BufferGet(x)))
                          = BufferGet(x)
                   /\ last_activity'[x] = buffers'[x][Len(buffers'[x])].ts]_vars

\* An event was appended to a source after its features were returned: it
\* is not counted in them and is in the buffer.
C18_AppendedAfterCompute ==
    /\ agg.pc = "idle"
    /\ agg.feat # None
    /\ agg.src \in DOMAIN buffers
    /\ Len(buffers[agg.src]) = agg.feat[1].total_packets + 1

\* C19.  The eviction step removes a source's buffer only if, with the
\* last-activity value of that moment, now - last_activity > keep_idle_for.
C19_EvictOnlyIdle ==
    [][(agg.pc = "evict" /\ agg.src \in DOMAIN buffers
            /\ agg.src \notin DOMAIN buffers')
        => wall - last_activity[agg.src] > keep_idle_for]_vars

\* C20.  The snapshot of the active sources holds exactly the sources with
\* at least one buffered event.
C20_SnapshotNonempty ==
    [][(agg.pc = "snapshot" /\ agg'.pc = "next")
        => {agg'.srcs[i] : i \in 1..Len(agg'.srcs)}
               = {x \in DOMAIN buffers : buffers[x] # <<>>}]_vars

\* C20, as the code has it.  The snapshot holds exactly the keys of the
\* buffer store, each once: every source with a buffered event, and also a
\* source whose deque the trim has emptied and that is not yet evicted; for
\* a source without a buffered event compute_features_for_src returns None,
\* so that features are returned for sources with a buffered event only.
C20_SnapshotKeys ==
    [][/\ (agg.pc = "snapshot" /\ agg'.pc = "next")
          => /\ {agg'.srcs[i] : i \in 1..Len(agg'.srcs)} = DOMAIN buffers
             /\ Len(agg'.srcs) = Cardinality(DOMAIN buffers)
       /\ (agg.pc = "compute" /\ agg'.pc # "compute"
               /\ BufferGet(agg.src) = <<>>)
          => (agg'.pc = "idle" /\ agg'.feat = None)
       /\ (agg'.feat # None /\ agg.feat = None)
          => (agg.src \in DOMAIN buffers /\ buffers[agg.src] # <<>>)]_vars

\* The snapshot just taken names a source whose deque is empty.
C20_EmptySourceInSnapshot ==
    /\ agg.pc = "next"
    /\ \E i \in 1..Len(agg.srcs) :
          /\ agg.srcs[i] \in DOMAIN buffers
          /\ buffers[agg.srcs[i]] = <<>>

\* C21.  An enforcement call that fails or is skipped (refused, mocked,
\* backend missing, command failed) changes neither the active entries nor
\* the history and ends its request as a success would: after such an apply
\* the request has ended as blocked, the history entry of the block is there
\* and its deferred expiry task is scheduled, and the BlockEntry is there
\* unless an unblock or the TTL monitor removed it meanwhile; after such a
\* remove no entry comes back, and remove_block answers.
C21_EnforcementFailureKeepsState ==
    [][/\ \A t \in TaskIds :
            (/\ tasks[t].pc = "apply"
             /\ tasks'[t].pc # "apply"
             /\ enf_call'.outcome # "ok")
            => /\ enf_call'.op = "apply"
               /\ resp' = Resp(tasks[t].ip, "blocked")
               /\ blocked_ips' = blocked_ips
               /\ blocked_ips_history' = blocked_ips_history
               /\ \E h \in blocked_ips_history' : h.id = t
               /\ \E tm \in timers' : tm.id = t /\ tm.ip = tasks[t].ip
               /\ timers \subseteq timers'
       /\ (enf_call'.op = "remove" /\ enf_call'.outcome # "ok")
            => /\ blocked_ips' = blocked_ips
               /\ blocked_ips_history' = blocked_ips_history
               /\ iptables' = iptables
               /\ enf_call'.via = "remove_block"
                     => resp' = Resp(enf_call'.ip, "unblocked")]_vars

\* An apply has just failed at the iptables command, and the BlockEntry, the
\* history entry and the deferred expiry task of its block are there.
C21_FailedApplyEntryKept ==
    /\ enf_call.op = "apply"
    /\ enf_call.outcome = "failed"
    /\ resp.what = "blocked"
    /\ \E e \in blocked_ips :
          /\ e.ip = enf_call.ip
          /\ \E h \in blocked_ips_history : h.id = e.id
          /\ \E tm \in timers : tm.id = e.id

\* C22.  When the classifier call of a /detect request raises, the request
\* ends with an error answer and nothing of it is left to run (no block
\* coroutine, no second attempt): the step stores no alert, inserts no
\* BlockEntry and no history entry, schedules no expiry task and calls no
\* enforcement helper, and no entry made on behalf of the model follows from
\* it.
C22_ClassifierFailureFailsClosed ==
    [][\A t \in TaskIds :
          (tasks[t].pc = "idle" /\ tasks'[t].pc # "idle"
              /\ resp'.what = "error")
          => /\ tasks'[t] = DoneTask
             /\ \A u \in TaskIds \ {t} : tasks'[u] = tasks[u]
             /\ \A i \in 1..Len(written') : written'[i].coll = "flows"
             /\ blocked_ips' = blocked_ips
             /\ blocked_ips_history' = blocked_ips_history
             /\ ever_blocked' = ever_blocked
             /\ timers' = timers
             /\ enf_call' = NoCall]_vars

\* A /detect request has just failed at the classifier, with every request
\* slot used up and no block ever made.
C22_FailedDetection ==
    /\ resp.what = "error"
    /\ \A t \in TaskIds : tasks[t].pc = "done"
    /\ ever_blocked = {}
    /\ timers = {}

\* C23.  An update_config request with a threshold outside [0, 1] or a
\* non-positive block duration is answered 400 and leaves the cached and the
\* stored policy as they were; a request answered 200 gives every field it
\* supplies (threshold, block duration, mitigation toggle) the supplied value
\* in the cache and in the store, and leaves the fields it does not supply
\* as they were.  (The last-updated timestamp is not part of the model.)
Supplied(field, old, new) ==
    IF field = None THEN new = old ELSE new = field[1]

C23_ConfigUpdateExact ==
    [][\A payload \in ConfigUpdates, store_ok \in BOOLEAN :
          (resp'.what = "config" /\ update_config(payload, store_ok))
          => /\ BadUpdate(payload)
                => /\ ConfigStatus(payload, store_ok) = 400
                   /\ CONFIG_CACHE' = CONFIG_CACHE
                   /\ config_db' = config_db
             /\ ConfigStatus(payload, store_ok) = 200
                => /\ Supplied(payload.threshold, CONFIG_CACHE.threshold,
                               CONFIG_CACHE'.threshold)
                   /\ Supplied(payload.block_duration_sec,
                               CONFIG_CACHE.block_duration_sec,
                               CONFIG_CACHE'.block_duration_sec)
                   /\ Supplied(payload.blocking_enabled,
                               CONFIG_CACHE.blocking_enabled,
                               CONFIG_CACHE'.blocking_enabled)
                   /\ Supplied(payload.threshold, config_db.threshold,
                               config_db'.threshold)
                   /\ Supplied(payload.block_duration_sec,
                               config_db.block_duration_sec,
                               config_db'.block_duration_sec)
                   /\ Supplied(payload.blocking_enabled,
                               config_db.blocking_enabled,
                               config_db'.blocking_enabled)]_vars

\* C24.  When the insert of the BlockHistoryEntry raises, the block request
\* ends with that failure and the coroutine still goes on to its enforcement
\* apply: the step that leaves the history insert without a new history
\* entry calls block_ip_iptables for the address.
C24_HistoryFailureStillApplies ==
    [][\A t \in TaskIds :
          (/\ tasks[t].pc = "history"
           /\ tasks'[t].pc # "history"
           /\ blocked_ips_history' = blocked_ips_history)
          => /\ resp' = Resp(tasks[t].ip, "failed")
             /\ enf_call'.op = "apply"
             /\ enf_call'.ip = tasks[t].ip]_vars

\* C25.  A block request that passes the existence check and whose store
\* writes succeed makes its transition once: one step inserts exactly one
\* BlockEntry (address, duration, reason and actor of the request), one
\* later step inserts exactly one history entry for it, one later step
\* calls enforcement apply once and schedules exactly one deferred expiry
\* task, and no other step inserts an entry, writes history, schedules a
\* task or calls apply; a request never goes back to an earlier stage.  A
\* block scheduled by /detect carries the block duration of the policy and
\* the attack type stored in its alert.
Stage(pc) ==
    CASE pc = "idle" -> 0
      [] pc = "find" -> 1
      [] pc = "insert" -> 2
      [] pc = "history" -> 3
      [] pc = "apply" -> 4
      [] pc = "done" -> 5

C26_ReturnsOnlyWhenDrained ==
    /\ [](agg.pc = "exited"
            => /\ mode = "replay"
               /\ replay_done
               /\ replay.pc = "returned"
               /\ \A src \in DOMAIN buffers : buffers[src] = <<>>)
    /\ [][agg.pc = "exited" => agg'.pc = "exited"]_vars

\* The aggregator has returned after a replay while sources are still keys
\* of the buffers, each with an empty deque.
C26_ExitedWithEmptyDeques ==
    /\ agg.pc = "exited"
    /\ mode = "replay"
    /\ replay.sets = 1
    /\ DOMAIN buffers # {}

\* C27.  A slow submission never holds up the aggregator: while the clock
\* advances, the aggregator thread is never inside a POST to the detection
\* endpoint, waiting for it to return before it can start its next cycle.
C27_PostNeverStalls ==
    [][wall' # wall => agg.pc # "post"]_vars

\* C28.  buffers_lock is held only between the trim and the end of the
\* aggregation loop of compute_features_for_src: never while the aggregator
\* sleeps, posts, or stands before a "with buffers_lock"; and whoever holds
\* it releases it, whether or not the replay thread still runs, so that the
\* lock is free again and again for a waiting push_event.
C28_LockHeldBriefly ==
    /\ [](buffers_lock # "free" => agg.pc = "aggregate")
    /\ []<>(buffers_lock = "free")

\* The aggregator of an extractor that posts its features holds the lock
\* after the replay thread has returned.
C28_LockHeldAfterIngestion ==
    /\ post
    /\ buffers_lock = "aggregator"
    /\ replay.pc = "returned"
    /\ agg.features_batch # <<>>

\* C29.  The wait computed between two replayed packets, times the speed
\* multiplier, is the difference of their timestamps, or zero when that is
\* negative (the speed is in halves: wait * speed = 2 * difference).
C29_WaitScaled ==
    [][pace' # pace
         => pace'.wait * speed = 2 * Max(0, pace'.prev_ts - pace.prev_ts)]_vars

\* C30.  A packet whose transport header cannot be parsed gives no event:
\* the step that ingests it leaves the buffers and the last-activity
\* records as they were.
C30_MalformedGivesNoEvent ==
    [][\A src \in IPs, pkt \in MalformedPackets :
          start_live_sniff(0, src, pkt)
          => /\ buffers' = buffers
             /\ last_activity' = last_activity]_vars

C32_ToggleUpdated ==
    [][\A payload \in PolicyUpdates, store_ok \in BOOLEAN :
          (/\ resp'.what = "config"
           /\ update_config(payload, store_ok)
           /\ payload.blocking_enabled # None
           /\ ConfigStatus(payload, store_ok) = 200)
          => CONFIG_CACHE'.blocking_enabled = payload.blocking_enabled[1]]_vars

\* C33.  A manual block request whose duration_sec is zero or negative is
\* rejected: the request ends in the step with a client error and starts no
\* block request, so that there is no BlockEntry, no history entry and no
\* enforcement call of its making.
C33_NonPositiveDurationRejected ==
    [][\A t \in TaskIds, d \in ManualDurations \ {None}, note \in Notes :
          (d[1] <= 0 /\ manual_block(t, target, d, note))
          => /\ resp' = Resp(target, "rejected")
             /\ tasks'[t] = DoneTask
             /\ blocked_ips' = blocked_ips
             /\ blocked_ips_history' = blocked_ips_history
             /\ enf_call' = NoCall]_vars

\* C34.  A POST of features that fails (an error status, a connection error
\* or a timeout) leaves every deque and every last-activity record as they
\* were and does not end the aggregator: the thread goes on with the next
\* POST or with the end of its pass, and from a failed POST it always
\* reaches the end of the pass (its next cycle, or its return once the
\* replay is done and the deques are empty).
C34_FailedPostKeepsBuffers ==
    /\ [][\A outcome \in PostOutcomes \ {"answered"} :
            post_features_to_api(outcome)
            => /\ buffers' = buffers
               /\ last_activity' = last_activity
               /\ agg'.pc \in {"post", "next"}]_vars
    /\ (agg.results # "none" /\ agg.results # "answered")
          ~> (agg.pc \in {"snapshot", "exited"} /\ agg.results = "none")

\* The last POST of the pass failed, the call has returned, and the replay
\* thread still has packets to ingest.
C34_PostFailed ==
    /\ agg.pc = "next"
    /\ agg.results = "timeout"
    /\ agg.features_batch = <<>>
    /\ buffers # <<>>
    /\ replay.pc # "returned"

\* C35.  In every reachable state the events of every deque are in
\* non-decreasing order of their timestamps, whatever packets the drivers
\* ingest.
C35_BuffersInOrder == \A src \in DOMAIN buffers : InOrder(buffers[src])

\* C36.  In replay mode every event the replay thread appended is counted
\* in a features dictionary before it leaves its deque: the trim pops no
\* event that no features dictionary has counted, and the idle eviction
\* deletes no deque that holds one.
C36_CountedBeforeDropped ==
    [][/\ (agg.pc = "compute" /\ agg'.pc # "compute")
            => agg'.popped <= Len(BufferGet(agg.src)) - uncounted[agg.src]
       /\ (agg.pc = "evict" /\ agg'.pc # "evict")
            => uncounted[agg.src] = 0]_vars

\* C37.  The delayed_unblock of one block removes no rule of a later block
\* of its address: when the task of a block whose BlockEntry is gone (it
\* was unblocked) removes a DROP rule, no later block of the address is
\* active and unexpired with its own rule applied and its own
\* delayed_unblock still asleep.
C37_TimerSparesLaterBlock ==
    [][\A tm \in timers :
          (/\ timers' = timers \ {tm}
           /\ enf_call'.via = "timer"
           /\ enf_call'.outcome = "ok"
           /\ ~\E e1 \in blocked_ips : e1.id = tm.id)
          => ~\E e \in blocked_ips, tm2 \in timers :
                /\ e.ip = tm.ip
                /\ e.id > tm.id
                /\ e.expireAt > since[e.id]
                /\ tm2.id = e.id
                /\ tm2.ok]_vars

C39_BuffersAndActivityAgree ==
    /\ [](buffers_lock = "free" =>
            /\ DOMAIN buffers = DOMAIN last_activity
            /\ \A src \in DOMAIN buffers :
                  buffers[src] # <<>>
                  => last_activity[src] = buffers[src][Len(buffers[src])].ts)
    /\ [][\A src \in IPs :
            /\ (/\ src \in DOMAIN last_activity'
                /\ \/ src \notin DOMAIN last_activity
                   \/ last_activity'[src] # last_activity[src])
               => \E ev \in {buffers'[src][Len(buffers'[src])]} :
                     /\ buffers'[src] = Append(BufferGet(src), ev)
                     /\ last_activity'[src] = ev.ts
            /\ (src \in DOMAIN last_activity /\ src \notin DOMAIN last_activity')
               => src \in DOMAIN buffers /\ src \notin DOMAIN buffers']_vars

\* The aggregator has just evicted an idle source, deque and record, while
\* another source holds events.
C39_EvictedBoth ==
    /\ buffers_lock = "free"
    /\ agg.pc = "next"
    /\ agg.src \in IPs
    /\ agg.src \notin DOMAIN buffers
    /\ agg.src \notin DOMAIN last_activity
    /\ \E src \in DOMAIN buffers : buffers[src] # <<>>
====
